---- MODULE Spec2Model ----
(***************************************************************************)
(* Model of the authentication core of the hkers backend:                  *)
(*   - the JWT manager (internal/core/auth/jwt.go),                        *)
(*   - the OIDC login flow handlers (internal/auth/handler.go),            *)
(*   - the user service and the users table behind it.                     *)
(* Time is counted in whole seconds, the precision jwt.NewNumericDate      *)
(* keeps; a comparison of the wall clock with a NumericDate therefore has  *)
(* the same outcome on the truncated clock.                                *)
(***************************************************************************)
EXTENDS Integers, FiniteSets, Sequences, TLC

\* ---------------------------------------------------------------- bounds
MaxTime == 2
MaxDuration == 2
MaxSkew == 1

\* ------------------------------------------------------- value universes
Times == 0..MaxTime
Durations == 1..MaxDuration

Nil == "<nil>"

Subjects == {"s1", "s2"}
Sessions == {"b1"}
States == {"st1", "st2"}
Verifiers == {"v1", "v2"}
\* What crypto/rand yields for one Login: a state and a PKCE verifier.
Randoms == {[state |-> "st1", verifier |-> "v1"], [state |-> "st2", verifier |-> "v2"]}
Codes == {"c1"}

\* ------------------------------------------------------------ JWT manager
SecretKey == "server-secret"
Keys == {SecretKey, "other-key"}

\* jwt.SigningMethodHMAC is the type of HS256, HS384 and HS512.
SigningMethodHMAC == {"HS256", "HS384"}
Algs == SigningMethodHMAC \cup {"RS256", "none"}

ErrNone == "nil"
ErrInvalidToken == "invalid token"
ErrExpiredToken == "token has expired"
ErrNotActive == "user account is not active"

JWTClaims(userID, email, oidcSub, username, isActive, exp, iat, nbf) ==
  [user_id |-> userID, email |-> email, oidc_sub |-> oidcSub,
   username |-> username, is_active |-> isActive,
   exp |-> exp, iat |-> iat, nbf |-> nbf]

ZeroClaims == JWTClaims(0, "", "", "", FALSE, 0, 0, 0)

\* An HMAC is a function of key, algorithm and signed text, and nothing else.
Sign(key, alg, payload) == [key |-> key, alg |-> alg, over |-> payload]

NoSig == [key |-> "", alg |-> "", over |-> ZeroClaims]

\* Method.Verify with the []byte key the key function returns: an HMAC
\* method recomputes the MAC; RS256 rejects the key type and "none" is
\* disallowed without the unsafe marker key.
Verify(alg, key, payload, sig) ==
  /\ alg \in SigningMethodHMAC
  /\ sig = Sign(key, alg, payload)

MalformedToken == [wf |-> FALSE, alg |-> "", payload |-> ZeroClaims, sig |-> NoSig]

\* A Go string holding bytes that are not UTF-8, and what encoding/json
\* writes for it: every invalid byte becomes U+FFFD.
InvalidUTF8 == "neo\\xff"
Marshal(str) == IF str = InvalidUTF8 THEN "neo\\ufffd" ELSE str

\* The JSON payload segment of a token carrying these claims.
MarshalClaims(claims) ==
  [claims EXCEPT !.email = Marshal(claims.email), !.oidc_sub = Marshal(claims.oidc_sub),
                 !.username = Marshal(claims.username)]

SignedString(alg, claims, key) ==
  [wf |-> TRUE, alg |-> alg, payload |-> MarshalClaims(claims),
   sig |-> Sign(key, alg, MarshalClaims(claims))]

\* GenerateToken leaving the Email claim unset.
GenerateToken_DropsEmail(dur, userID, email, oidcSub, username, isActive, tExp, tIat, tNbf) ==
  SignedString("HS256",
               JWTClaims(userID, "", oidcSub, username, isActive, tExp + dur, tIat, tNbf),
               SecretKey)

\* GenerateToken reads the clock three times (tExp, tIat, tNbf in that order).
GenerateToken(dur, userID, email, oidcSub, username, isActive, tExp, tIat, tNbf) ==
  SignedString("HS256",
               JWTClaims(userID, email, oidcSub, username, isActive, tExp + dur, tIat, tNbf),
               SecretKey)

\* The key function of ValidateToken (checkMethod) refuses a non-HMAC method;
\* the one RefreshToken passes for an expired token accepts any method.
Keyfunc(tok, checkMethod) ==
  IF checkMethod /\ tok.alg \notin SigningMethodHMAC THEN "unverifiable" ELSE "ok"

\* The registered-claims validator joins every failed check into one error.
ValidateClaims(claims, now) ==
  (IF now >= claims.exp THEN {"expired"} ELSE {}) \cup
  (IF now < claims.nbf THEN {"not valid yet"} ELSE {})

\* jwt.ParseWithClaims: segments, key function, signature, then claims.
ParseWithClaims(tok, now, checkMethod, validate) ==
  IF ~tok.wf THEN [errs |-> {"malformed"}, claims |-> ZeroClaims]
  ELSE IF Keyfunc(tok, checkMethod) # "ok"
    THEN [errs |-> {"unverifiable"}, claims |-> tok.payload]
  ELSE IF ~Verify(tok.alg, SecretKey, tok.payload, tok.sig)
    THEN [errs |-> {"signature invalid"}, claims |-> tok.payload]
  ELSE IF validate /\ ValidateClaims(tok.payload, now) # {}
    THEN [errs |-> ValidateClaims(tok.payload, now), claims |-> tok.payload]
  ELSE [errs |-> {}, claims |-> tok.payload]

\* ValidateToken without the IsActive test.
ValidateToken_NoActiveCheck(tok, now) ==
  LET p == ParseWithClaims(tok, now, TRUE, TRUE) IN
  IF p.errs # {}
    THEN [err |-> IF "expired" \in p.errs THEN ErrExpiredToken ELSE ErrInvalidToken,
          claims |-> {}]
    ELSE [err |-> ErrNone, claims |-> {p.claims}]

ValidateToken(tok, now) ==
  LET p == ParseWithClaims(tok, now, TRUE, TRUE) IN
  IF p.errs # {}
    THEN [err |-> IF "expired" \in p.errs THEN ErrExpiredToken ELSE ErrInvalidToken,
          claims |-> {}]
  ELSE IF ~p.claims.is_active
    THEN [err |-> ErrNotActive, claims |-> {}]
    ELSE [err |-> ErrNone, claims |-> {p.claims}]


\* RefreshToken without the errors.Is test: any validation error falls through
\* to the parse without claims validation.
RefreshToken_AnyError(dur, tok, now, tExp, tIat, tNbf) ==
  LET p == ParseWithClaims(tok, now, FALSE, FALSE)
      c == p.claims
  IN IF p.errs # {}
       THEN [err |-> "parse error", token |-> {}]
       ELSE [err |-> ErrNone,
             token |-> {GenerateToken(dur, c.user_id, c.email, c.oidc_sub, c.username,
                                      c.is_active, tExp, tIat, tNbf)}]

\* RefreshToken returning every validation error, the expired one included.
RefreshToken_RejectsExpired(dur, tok, now, tExp, tIat, tNbf) ==
  LET v == ValidateToken(tok, now) IN
  IF v.err # ErrNone
    THEN [err |-> v.err, token |-> {}]
    ELSE LET c == CHOOSE x \in v.claims : TRUE
         IN [err |-> ErrNone,
             token |-> {GenerateToken(dur, c.user_id, c.email, c.oidc_sub, c.username,
                                      c.is_active, tExp, tIat, tNbf)}]

\* now is the clock the validator reads; tExp, tIat, tNbf the later reads of
\* GenerateToken.
RefreshToken(dur, tok, now, tExp, tIat, tNbf) ==
  LET v == ValidateToken(tok, now) IN
  IF v.err # ErrNone
    THEN IF v.err # ErrExpiredToken
           THEN [err |-> v.err, token |-> {}]
           ELSE LET p == ParseWithClaims(tok, now, FALSE, FALSE)
                    c == p.claims
                IN IF p.errs # {}
                     THEN [err |-> "parse error", token |-> {}]
                     ELSE [err |-> ErrNone,
                           token |-> {GenerateToken(dur, c.user_id, c.email, c.oidc_sub,
                                                    c.username, c.is_active,
                                                    tExp, tIat, tNbf)}]
    ELSE LET c == CHOOSE x \in v.claims : TRUE
         IN [err |-> ErrNone,
             token |-> {GenerateToken(dur, c.user_id, c.email, c.oidc_sub, c.username,
                                      c.is_active, tExp, tIat, tNbf)}]

\* ------------------------------------------- tokens a client may present
Identities ==
  {[user_id |-> 1, email |-> "a@x", oidc_sub |-> "s1", username |-> "neo"],
   [user_id |-> 2, email |-> "", oidc_sub |-> "s2", username |-> "s2"]}

\* The arguments a caller may pass to GenerateToken.
MintArgs ==
  Identities \cup
  {[user_id |-> 1, email |-> "a@x", oidc_sub |-> "s1", username |-> InvalidUTF8]}

\* The validator never reads iat, so a presented token carries iat = nbf;
\* exp and nbf range over the whole clock.
Payloads ==
  {JWTClaims(i.user_id, i.email, i.oidc_sub, i.username, a, e, n, n) :
     i \in Identities, a \in BOOLEAN, e \in Times, n \in Times}

\* The payload of a token edited after it was signed.
Tampered(payload) == [payload EXCEPT !.is_active = ~payload.is_active]

\* Signed with the server's key, with another key, or signed by the server
\* and edited afterwards; only the first is tried with a non-HMAC header.
SignaturesFor(alg, payload) ==
  IF alg \in SigningMethodHMAC
    THEN {Sign(k, alg, payload) : k \in Keys} \cup {Sign(SecretKey, alg, Tampered(payload))}
    ELSE {Sign(SecretKey, alg, payload)}

TokenInputs ==
  {MalformedToken} \cup
  UNION {{[wf |-> TRUE, alg |-> a, payload |-> p, sig |-> s] : s \in SignaturesFor(a, p)} :
           a \in Algs, p \in Payloads}

\* --------------------------------------------------- users table, service
ErrUserNotActive == "user account is not active (directory)"
ErrUserNotAllowed == "user is not allowed to access this application"
ErrUniqueViolation == "duplicate key value violates unique constraint"

\* SELECT * FROM users WHERE oidc_sub = $1 LIMIT 1
GetUserByOIDCSub(dir, oidcSub) == {u \in dir : u.oidc_sub = oidcSub}

\* SELECT * FROM users WHERE oidc_sub = $1 AND is_active = TRUE LIMIT 1
GetActiveUserByOIDCSub(dir, oidcSub) ==
  {u \in dir : u.oidc_sub = oidcSub /\ u.is_active}

\* oidc_sub and username are UNIQUE NOT NULL, email is UNIQUE and may be NULL
\* (NULLs never collide).
UniqueViolation(dir, oidcSub, username, email) ==
  \E u \in dir : \/ u.oidc_sub = oidcSub
                 \/ u.username = username
                 \/ (email # Nil /\ u.email = email)

\* The INSERT writing is_active = TRUE.
CreateUserFromOIDC_Active(dir, id, oidcSub, username, email) ==
  IF \E u \in dir : u.oidc_sub = oidcSub \/ u.username = username
    THEN [err |-> ErrUniqueViolation, row |-> {}]
    ELSE [err |-> ErrNone,
          row |-> {[id |-> id, oidc_sub |-> oidcSub, username |-> username,
                    email |-> email, is_active |-> TRUE, trust_points |-> 0]}]

\* INSERT ... VALUES ($1, $2, $3, FALSE, 0) RETURNING *; id is the SERIAL key.
CreateUserFromOIDC(dir, id, oidcSub, username, email) ==
  IF UniqueViolation(dir, oidcSub, username, email)
    THEN [err |-> ErrUniqueViolation, row |-> {}]
    ELSE [err |-> ErrNone,
          row |-> {[id |-> id, oidc_sub |-> oidcSub, username |-> username,
                    email |-> email, is_active |-> FALSE, trust_points |-> 0]}]

ErrNoRows == "no rows in result set"
ErrDatabase == "database error"

\* What a :one query returns: the row, pgx.ErrNoRows when the rows are
\* empty, or another error when the database does not answer.
QueryRow(rows, answered) ==
  IF ~answered THEN [err |-> ErrDatabase, rows |-> {}]
  ELSE IF rows = {} THEN [err |-> ErrNoRows, rows |-> {}]
  ELSE [err |-> ErrNone, rows |-> rows]

\* Service.ValidateOIDCLogin (part_009:52-67); db1 and db2 tell whether the
\* database answers the first and the second query.
ValidateOIDCLoginDB(dir, oidcSub, db1, db2) ==
  LET active == QueryRow(GetActiveUserByOIDCSub(dir, oidcSub), db1)
      existing == QueryRow(GetUserByOIDCSub(dir, oidcSub), db2)
  IN IF active.err # ErrNone
       THEN IF existing.err = ErrNone /\ (\A u \in existing.rows : u.id > 0)
              THEN [err |-> ErrUserNotActive, user |-> {}]
              ELSE [err |-> ErrUserNotAllowed, user |-> {}]
       ELSE [err |-> ErrNone, user |-> active.rows]

\* Service.ValidateOIDCLogin against a database that answers.
ValidateOIDCLogin(dir, oidcSub) == ValidateOIDCLoginDB(dir, oidcSub, TRUE, TRUE)

\* The result carries the directory and the id sequence as the call leaves
\* them.
\* Service.GetOrCreateOIDCUser (part_009:69-90); dbSel and dbIns tell whether
\* the database answers the SELECT and the INSERT.
GetOrCreateOIDCUserDB(dir, nid, oidcSub, username, email, dbSel, dbIns) ==
  LET existing == QueryRow(GetUserByOIDCSub(dir, oidcSub), dbSel) IN
  IF existing.err = ErrNone
    THEN [err |-> ErrNone, isNew |-> FALSE, user |-> existing.rows, dir |-> dir,
          nid |-> nid]
    ELSE LET c == IF dbIns
                    THEN CreateUserFromOIDC(dir, nid, oidcSub, username,
                                            IF email = "" THEN Nil ELSE email)
                    ELSE [err |-> ErrDatabase, row |-> {}]
         IN IF c.err # ErrNone
              THEN [err |-> c.err, isNew |-> FALSE, user |-> {}, dir |-> dir, nid |-> nid]
              ELSE [err |-> ErrNone, isNew |-> TRUE, user |-> c.row,
                    dir |-> dir \cup c.row, nid |-> nid + 1]

\* Service.GetOrCreateOIDCUser against a database that answers.
GetOrCreateOIDCUser(dir, nid, oidcSub, username, email) ==
  GetOrCreateOIDCUserDB(dir, nid, oidcSub, username, email, TRUE, TRUE)

\* ------------------------------------------------------------- auth handler
MsgNotConfigured ==
  "OIDC authentication is not configured. Please configure OIDC_ISSUER, OIDC_CLIENT_ID, OIDC_CLIENT_SECRET, and OIDC_REDIRECT_URL environment variables."
MsgSaveSession == "Failed to save session"
MsgInvalidState == "Invalid state parameter"
MsgMissingVerifier == "Missing PKCE verifier"
MsgExchange == "Failed to exchange authorization code"
MsgVerify == "Failed to verify ID token"
MsgExtract == "Failed to extract claims"
MsgMissingSub == "Invalid OIDC token: missing sub claim"
MsgPending == "Your account is pending approval. Please contact an administrator."
MsgRegisterFailed == "Failed to register user"
MsgRegistered ==
  "Your account has been registered and is pending approval. Please contact an administrator."
MsgNotActive == "Your account is not active. Please contact an administrator."
MsgClearSession == "Failed to clear session"

\* What the session store holds for one browser: both keys absent, or the
\* pair Login saved.
EmptySession == [state |-> Nil, code_verifier |-> Nil]

\* The query parameter is a string ("" when absent); session.Get yields nil
\* or the stored string, and a string never equals nil.
QueryStates == States \cup {""}

\* What the provider and its ID token yield for one exchange: a failure of
\* one of the three provider steps, or the claims of the verified ID token.
\* sub = Nil stands for a sub claim that is absent or not a string.
ProfileShapes ==
  {[nickname |-> "neo", name |-> "", email |-> ""],
   [nickname |-> "", name |-> "Tom", email |-> ""],
   [nickname |-> "", name |-> "", email |-> "a@x"]}

Profile(sub, shape) ==
  [sub |-> sub, nickname |-> shape.nickname, name |-> shape.name, email |-> shape.email]

NoProfile == [sub |-> Nil, nickname |-> "", name |-> "", email |-> ""]

Profiles ==
  {Profile(sub, sh) : sub \in Subjects, sh \in ProfileShapes}
  \cup {NoProfile, [NoProfile EXCEPT !.sub = ""]}

ProviderResults ==
  {[kind |-> k, profile |-> NoProfile] : k \in {"exchange error", "verify error", "claims error"}}
  \cup {[kind |-> "ok", profile |-> p] : p \in Profiles}

\* base64url(SHA-256(verifier))
S256(verifier) == <<"sha256", verifier>>

\* Service.GeneratePKCE on the bytes crypto/rand returned.
GeneratePKCE(verifier) == [verifier |-> verifier, challenge |-> S256(verifier)]

\* Service.GetAuthURL: the authorization URL without PKCE parameters.
GetAuthURL(state) ==
  [state |-> state, code_challenge |-> <<>>, code_challenge_method |-> ""]

\* The redirect built without the two PKCE parameters.
GetAuthURLWithPKCE_NoPKCE(state, codeChallenge) == GetAuthURL(state)

\* Service.GetAuthURLWithPKCE: the query parameters of the authorization URL.
GetAuthURLWithPKCE(state, codeChallenge) ==
  [state |-> state, code_challenge |-> codeChallenge, code_challenge_method |-> "S256"]

\* The state check skipped when the request carries no state parameter.
StateMatches_EmptyQuery(query, stored) == query = "" \/ query = stored

\* handler.go:75, negated
StateMatches(query, stored) == query = stored

\* The emptiness test dropped: any stored string counts as a verifier.
VerifierPresent_AnyString(verifier) == verifier # Nil

\* handler.go:80-81, negated
VerifierPresent(verifier) == verifier # Nil /\ verifier # ""

\* The sub claim dropped from the test: only a non-string sub is refused.
SubMissing_EmptyAllowed(profile) == profile.sub = Nil

\* handler.go:108-109: profile["sub"] is not a string, or is empty
SubMissing(profile) == profile.sub = Nil \/ profile.sub = ""

\* pgtype.Text.String: a NULL text column reads as the empty string
EmailString(email) == IF email = Nil THEN "" ELSE email

\* The "user" object built without reading the e-mail column.
UserJSON_OmitsEmail(u) ==
  [id |-> u.id, email |-> "", username |-> u.username,
   oidc_sub |-> u.oidc_sub, is_active |-> u.is_active, trust_points |-> u.trust_points]

\* The "user" object of a successful Callback (handler.go:184-192); the
\* created_at column is not part of the model's rows.
UserJSON(u) ==
  [id |-> u.id, email |-> EmailString(u.email), username |-> u.username,
   oidc_sub |-> u.oidc_sub, is_active |-> u.is_active, trust_points |-> u.trust_points]

\* "expires_in" of both token responses (handler.go:183, 270), in seconds
ExpiresIn == 86400 * 7

\* handler.go:128-135
UsernameFor(profile) ==
  IF profile.nickname # "" THEN profile.nickname
  ELSE IF profile.name # "" THEN profile.name
  ELSE profile.sub

\* handler.go:172-178: what the store holds after Delete, Delete, Save.
\* The success path without the two Delete calls.
ClearSession_Keeps(sess, saveOk) == sess

ClearSession(sess, saveOk) == IF saveOk THEN EmptySession ELSE sess

CallbackBase(sess, dir, nid) ==
  [status |-> 0, msg |-> "", token |-> {}, minted |-> {}, session |-> sess,
   dir |-> dir, nid |-> nid, passed |-> FALSE, exchanged |-> {}, sub |-> Nil,
   lookup |-> "none", created |-> {}, idsub |-> "none", user |-> {}]

Fail(r, status, msg) == [r EXCEPT !.status = status, !.msg = msg]

\* Handler.Callback from the directory lookup on (handler.go:114-195).
CallbackResolve(r, sess, dir, nid, dur, profile, saveOk, tExp, tIat, tNbf) ==
  LET v == ValidateOIDCLogin(dir, profile.sub)
      r1 == [r EXCEPT !.lookup = v.err]
  IN IF v.err = ErrUserNotActive THEN Fail(r1, 403, MsgPending)
     ELSE IF v.err = ErrUserNotAllowed
       THEN LET g == GetOrCreateOIDCUser(dir, nid, profile.sub, UsernameFor(profile),
                                         profile.email)
                r2 == [r1 EXCEPT !.dir = g.dir, !.nid = g.nid,
                                 !.created = g.dir \ dir]
            IN IF g.err # ErrNone THEN Fail(r2, 500, MsgRegisterFailed)
               ELSE IF g.isNew THEN Fail(r2, 403, MsgRegistered)
               ELSE Fail(r2, 403, MsgNotActive)
     ELSE LET u == CHOOSE x \in v.user : TRUE
              jwt == GenerateToken(dur, u.id, IF u.email = Nil THEN "" ELSE u.email,
                                   u.oidc_sub, u.username, u.is_active, tExp, tIat, tNbf)
              r2 == [r1 EXCEPT !.minted = {jwt}, !.session = ClearSession(sess, saveOk)]
          IN IF ~saveOk THEN Fail(r2, 500, MsgClearSession)
             ELSE [r2 EXCEPT !.status = 200, !.token = {jwt}, !.user = {UserJSON(u)}]

\* Handler.Callback with a configured OIDC service (handler.go:72-195).
Callback(sess, dir, nid, dur, qstate, code, prov, saveOk, tExp, tIat, tNbf) ==
  LET r == CallbackBase(sess, dir, nid) IN
  IF ~StateMatches(qstate, sess.state) THEN Fail(r, 400, MsgInvalidState)
  ELSE IF ~VerifierPresent(sess.code_verifier) THEN Fail(r, 400, MsgMissingVerifier)
  ELSE LET r1 == [r EXCEPT !.passed = TRUE,
                           !.exchanged = {<<code, sess.code_verifier>>}]
       IN IF prov.kind = "exchange error" THEN Fail(r1, 401, MsgExchange)
          ELSE IF prov.kind = "verify error" THEN Fail(r1, 500, MsgVerify)
          ELSE IF prov.kind = "claims error" THEN Fail(r1, 500, MsgExtract)
          ELSE IF SubMissing(prov.profile)
            THEN Fail([r1 EXCEPT !.idsub = prov.profile.sub], 500, MsgMissingSub)
          ELSE CallbackResolve([r1 EXCEPT !.sub = prov.profile.sub,
                                          !.idsub = prov.profile.sub],
                               sess, dir, nid, dur, prov.profile, saveOk, tExp, tIat, tNbf)


\* ---------------------------------------------------------------- startup
ErrIssuerRequired == "OIDC issuer is required but not configured"
ErrClientIDRequired == "OIDC client ID is required but not configured"
ErrClientSecretRequired == "OIDC client secret is required but not configured"
ErrRedirectURLRequired == "OIDC redirect URL is required but not configured"
ErrProviderInit == "failed to initialize OIDC provider"
ErrParseURL == "parse: missing protocol scheme"

\* An end-session URL url.Parse accepts, and a string it refuses.
GoodEndSessionURL == "https://idp/logout"
BadEndSessionURL == ":logout"
EndSessionURLs == {"", GoodEndSessionURL, BadEndSessionURL}

\* The OIDC part of the configuration read from the environment, with
\* discovery standing for what oidc.NewProvider finds at the issuer.
CompleteEnv ==
  [issuer |-> "https://idp", clientID |-> "hkers", clientSecret |-> "s3cret",
   redirectURL |-> "https://app/callback", discovery |-> "ok",
   endSessionURL |-> ""]

Envs ==
  [issuer : {"", CompleteEnv.issuer}, clientID : {"", CompleteEnv.clientID},
   clientSecret : {"", CompleteEnv.clientSecret},
   redirectURL : {"", CompleteEnv.redirectURL}, discovery : {"ok", "error"},
   endSessionURL : EndSessionURLs]

\* auth.NewService (part_013:29-78): the error it returns, ErrNone when the
\* service is built.
NewService(cfg) ==
  IF cfg.issuer = "" THEN ErrIssuerRequired
  ELSE IF cfg.clientID = "" THEN ErrClientIDRequired
  ELSE IF cfg.clientSecret = "" THEN ErrClientSecretRequired
  ELSE IF cfg.redirectURL = "" THEN ErrRedirectURLRequired
  ELSE IF cfg.discovery # "ok" THEN ErrProviderInit
  ELSE ErrNone

\* url.Parse on the configured end-session URL
ParseURL(raw) == IF raw = BadEndSessionURL THEN ErrParseURL ELSE ErrNone

\* The Host header of the request, as Logout turns it into a return URL.
ReturnToURL == "http://app"

\* Service.GetEndSessionURL (part_013:140-160) with an empty id-token hint
GetEndSessionURL(endSessionURL, returnToURL) ==
  IF endSessionURL = "" THEN [url |-> {}, ok |-> FALSE, err |-> ErrNone]
  ELSE IF ParseURL(endSessionURL) # ErrNone
    THEN [url |-> {}, ok |-> FALSE, err |-> ParseURL(endSessionURL)]
  ELSE [url |-> {[base |-> endSessionURL, post_logout_redirect_uri |-> returnToURL]},
        ok |-> TRUE, err |-> ErrNone]

MsgLoggedOut == "Logged out successfully"
MsgLogoutURL == "Failed to build logout URL"

\* Logout without its test for a missing OIDC service.
Logout_NoNilCheck(configured, endSessionURL) ==
  LET e == GetEndSessionURL(endSessionURL, ReturnToURL)
  IN IF e.err # ErrNone THEN [status |-> 500, msg |-> MsgLogoutURL, logout_url |-> {}]
     ELSE [status |-> 200, msg |-> MsgLoggedOut, logout_url |-> e.url]

\* Handler.Logout (handler.go:199-239)
Logout(configured, endSessionURL) ==
  IF ~configured THEN [status |-> 200, msg |-> MsgLoggedOut, logout_url |-> {}]
  ELSE LET e == GetEndSessionURL(endSessionURL, ReturnToURL)
       IN IF e.err # ErrNone
            THEN [status |-> 500, msg |-> MsgLogoutURL, logout_url |-> {}]
          ELSE IF e.ok THEN [status |-> 200, msg |-> MsgLoggedOut, logout_url |-> e.url]
          ELSE [status |-> 200, msg |-> MsgLoggedOut, logout_url |-> {}]

\* ------------------------------------------------------------------ state
VARIABLES
  now,            \* the latest reading of the wall clock, in seconds
  tokenDuration,  \* JWTManager.tokenDuration, in seconds
  oidcConfigured, \* Handler.authService # nil
  session,        \* the session store: browser -> stored keys
  users,          \* the rows of the users table
  nextId,         \* the next value of the users.id sequence
  done,           \* browser -> the code and state answered 200 since its last saved Login
  resp,           \* the last request of the flow and its response
  wallet,         \* the token a client of the JWT manager holds
  jres,           \* the last call of the JWT manager and its result
  proc,           \* the server process: "starting", "running" or "exited"
  env,            \* the OIDC settings of the environment the process was started in
  inflight        \* the Callback requests being served step by step, and the
                  \* authorization codes the provider has redeemed for them

vars == <<now, tokenDuration, oidcConfigured, session, users, nextId, done, resp,
          wallet, jres, proc, env, inflight>>

bootVars == <<proc, env>>

flowVars == <<oidcConfigured, session, users, nextId, done, resp>>
jwtVars == <<wallet, jres>>

NoRequest == [code |-> "", state |-> Nil]

NoResp ==
  [op |-> "none", sid |-> "", status |-> 0, msg |-> "", token |-> {}, minted |-> {},
   qstate |-> "", preState |-> Nil, passed |-> FALSE, replay |-> FALSE, sub |-> Nil,
   lookup |-> "none", preAccount |-> {}, created |-> {}, idsub |-> "none",
   exchanged |-> {}, preVerifier |-> Nil, generated |-> {}, redirect |-> {},
   auth |-> "none", logout_url |-> {}, header |-> [scheme |-> "", token |-> {}],
   at |-> 0, ctx |-> {}, token_type |-> "", expires_in |-> {}, user |-> {},
   err |-> "", isNew |-> FALSE, args |-> {}, wrote |-> FALSE, called |-> FALSE]

\* No request is being served step by step.
NoInflight == [req |-> <<>>, spent |-> {}]

NoJres ==
  [op |-> "none", tok |-> MalformedToken, at |-> 0, mintAt |-> 0, err |-> ErrNone,
   claims |-> {}, out |-> {}, args |-> {}]

Init ==
  /\ now = 0
  /\ tokenDuration = MaxDuration
  /\ oidcConfigured \in BOOLEAN
  /\ session = [s \in Sessions |-> EmptySession]
  /\ users = {}
  /\ nextId = 1
  /\ done = [s \in Sessions |-> NoRequest]
  /\ resp = NoResp
  /\ wallet = MalformedToken
  /\ jres = NoJres
  /\ proc = "running"
  /\ env = IF oidcConfigured THEN CompleteEnv ELSE [CompleteEnv EXCEPT !.issuer = ""]
  /\ inflight = NoInflight

\* ---------------------------------------------------------------- actions
\* Handler.Login (handler.go:33-62)
Login(s) ==
  \E rnd \in Randoms, saveOk \in BOOLEAN :
    LET r == [NoResp EXCEPT !.op = "Login", !.sid = s, !.preState = session[s].state,
                            !.preVerifier = session[s].code_verifier]
        pkce == GeneratePKCE(rnd.verifier)
        saved == [state |-> rnd.state, code_verifier |-> pkce.verifier]
        gen == [r EXCEPT !.generated = {[state |-> rnd.state, verifier |-> pkce.verifier]}]
    IN /\ proc = "running"
       /\ IF ~oidcConfigured
            THEN /\ resp' = [r EXCEPT !.status = 503, !.msg = MsgNotConfigured]
                 /\ UNCHANGED <<session, done>>
          ELSE IF ~saveOk
            THEN /\ resp' = [gen EXCEPT !.status = 500, !.msg = MsgSaveSession]
                 /\ UNCHANGED <<session, done>>
          ELSE /\ session' = [session EXCEPT ![s] = saved]
               /\ done' = [done EXCEPT ![s] = NoRequest]
               /\ resp' = [gen EXCEPT !.status = 307,
                                       !.redirect = {GetAuthURLWithPKCE(rnd.state,
                                                                        pkce.challenge)}]
       /\ UNCHANGED <<now, bootVars, inflight, tokenDuration, oidcConfigured, users, nextId, jwtVars>>

\* The inputs a Callback consumes: the provider is asked only past the two
\* session checks; the session is saved and the clock read only when a token
\* is minted.
ProviderInputs(sess, qstate) ==
  IF StateMatches(qstate, sess.state) /\ VerifierPresent(sess.code_verifier)
    THEN ProviderResults
    ELSE {[kind |-> "exchange error", profile |-> NoProfile]}

\* The three clock readings of one GenerateToken call made when the latest
\* reading was t: the clock never runs backwards, and at most MaxSkew
\* seconds pass between two readings of one call.
ClockReads(t) ==
  {r \in [tExp : t..MaxTime, tIat : t..MaxTime, tNbf : t..MaxTime] :
     /\ r.tExp <= r.tIat /\ r.tIat <= r.tExp + MaxSkew
     /\ r.tIat <= r.tNbf /\ r.tNbf <= r.tIat + MaxSkew}

MintInputs(dir, prov, t) ==
  IF prov.kind = "ok" /\ GetActiveUserByOIDCSub(dir, prov.profile.sub) # {}
    THEN [saveOk : BOOLEAN, clock : ClockReads(t)]
    ELSE {[saveOk |-> TRUE, clock |-> [tExp |-> t, tIat |-> t, tNbf |-> t]]}

\* Handler.Callback (handler.go:66-195) against a provider answering from
\* provs; with keep the client stores the access token of a 200 response.
CallbackStep(s, keep, provs) ==
  /\ proc = "running"
  /\ \E qstate \in QueryStates, code \in Codes :
     \E prov \in ProviderInputs(session[s], qstate) \cap provs :
     \E in \in MintInputs(users, prov, now) :
       LET req == [NoResp EXCEPT !.op = "Callback", !.sid = s, !.qstate = qstate,
                                 !.preState = session[s].state,
                                 !.preVerifier = session[s].code_verifier,
                                 !.replay = (done[s] = [code |-> code, state |-> qstate])]
       IN IF ~oidcConfigured
            THEN /\ resp' = [req EXCEPT !.status = 503, !.msg = MsgNotConfigured]
                 /\ UNCHANGED <<now, bootVars, inflight, tokenDuration, oidcConfigured, session, users,
                                nextId, done, jwtVars>>
            ELSE \E r \in {Callback(session[s], users, nextId, tokenDuration, qstate, code,
                                     prov, in.saveOk, in.clock.tExp, in.clock.tIat,
                                     in.clock.tNbf)} :
                    /\ session' = [session EXCEPT ![s] = r.session]
                    /\ users' = r.dir
                    /\ nextId' = r.nid
                    /\ now' = in.clock.tNbf
                    /\ done' = IF r.status = 200
                                 THEN [done EXCEPT ![s] = [code |-> code, state |-> qstate]]
                                 ELSE done
                    /\ resp' = [req EXCEPT !.status = r.status, !.msg = r.msg,
                                           !.token = r.token, !.minted = r.minted,
                                           !.passed = r.passed,
                                           !.sub = r.sub, !.lookup = r.lookup,
                                           !.preAccount = IF r.sub = Nil THEN {}
                                                          ELSE GetUserByOIDCSub(users, r.sub),
                                           !.created = r.created, !.idsub = r.idsub,
                                           !.exchanged = r.exchanged,
                                           !.user = r.user,
                                           !.token_type = IF r.status = 200
                                                            THEN "Bearer" ELSE "",
                                           !.expires_in = IF r.status = 200
                                                            THEN {ExpiresIn} ELSE {},
                                           !.preVerifier = session[s].code_verifier]
                    /\ wallet' = IF keep /\ r.status = 200
                                   THEN CHOOSE x \in r.token : TRUE
                                   ELSE wallet
                    /\ UNCHANGED <<bootVars, inflight, tokenDuration, oidcConfigured, jres>>

CallbackRequest(s) == CallbackStep(s, FALSE, ProviderResults)

\* Service.ActivateUser / Service.DeactivateUser: the administrator's
\* UPDATE users SET is_active = ... WHERE id = $1.
SetActive(id, flag) ==
  /\ \E u \in users : u.id = id /\ u.is_active # flag
  /\ users' = {IF u.id = id THEN [u EXCEPT !.is_active = flag] ELSE u : u \in users}
  /\ resp' = [NoResp EXCEPT !.op = IF flag THEN "ActivateUser" ELSE "DeactivateUser"]
  /\ UNCHANGED <<now, bootVars, inflight, tokenDuration, oidcConfigured, session, nextId, done, jwtVars>>

ActivateUser(id) == SetActive(id, TRUE)

DeactivateUser(id) == SetActive(id, FALSE)

Next ==
  \/ \E s \in Sessions : Login(s)
  \/ \E s \in Sessions : CallbackRequest(s)
  \/ \E id \in 1..Cardinality(Subjects) : ActivateUser(id)
  \/ \E id \in 1..Cardinality(Subjects) : DeactivateUser(id)

Spec == Init /\ [][Next]_vars

\* ---------------------------------------------------------- bearer gate
MsgHeaderRequired == "Authorization header required"
MsgHeaderFormat == "Invalid authorization header format. Expected: Bearer <token>"
MsgEmptyToken == "Empty token"
MsgInvalidOrExpired == "Invalid or expired token"
\* The request was handed to the next handler (ctx.Next()).
MsgNext == "next"

\* An Authorization header: absent, or a scheme followed by what is left of
\* the header, a token or nothing.
NoHeader == [scheme |-> "", token |-> {}]
Headers(tok) ==
  {NoHeader, [scheme |-> "Basic ", token |-> {tok}],
   [scheme |-> "Bearer ", token |-> {}], [scheme |-> "Bearer ", token |-> {tok}]}

\* The keys JWTAuth sets in the request context (auth.go:54-58)
ContextOf(claims) ==
  [user_id |-> claims.user_id, email |-> claims.email, username |-> claims.username,
   oidc_sub |-> claims.oidc_sub, is_active |-> claims.is_active]

\* JWTAuth taking whatever follows the first word of the header as the token.
JWTAuth_AnyScheme(header, t) ==
  IF header = NoHeader THEN [status |-> 401, msg |-> MsgHeaderRequired, claims |-> {}]
  ELSE IF header.token = {}
    THEN [status |-> 401, msg |-> MsgEmptyToken, claims |-> {}]
  ELSE LET v == ValidateToken(CHOOSE x \in header.token : TRUE, t)
       IN IF v.err # ErrNone
            THEN [status |-> 401, msg |-> MsgInvalidOrExpired, claims |-> {}]
            ELSE [status |-> 0, msg |-> MsgNext, claims |-> v.claims]

\* JWTAuth looking the token's subject up in the user directory.
JWTAuth_ChecksDirectory(header, t) ==
  IF header = NoHeader \/ header.scheme # "Bearer " \/ header.token = {}
    THEN [status |-> 401, msg |-> MsgHeaderRequired, claims |-> {}]
    ELSE LET tok == CHOOSE x \in header.token : TRUE
             v == ValidateToken(tok, t)
         IN IF v.err # ErrNone \/ GetActiveUserByOIDCSub(users, tok.payload.oidc_sub) = {}
              THEN [status |-> 401, msg |-> MsgInvalidOrExpired, claims |-> {}]
              ELSE [status |-> 0, msg |-> MsgNext, claims |-> v.claims]

\* middleware.JWTAuth (auth.go:13-63)
JWTAuth(header, t) ==
  IF header = NoHeader THEN [status |-> 401, msg |-> MsgHeaderRequired, claims |-> {}]
  ELSE IF header.scheme # "Bearer "
    THEN [status |-> 401, msg |-> MsgHeaderFormat, claims |-> {}]
  ELSE IF header.token = {}
    THEN [status |-> 401, msg |-> MsgEmptyToken, claims |-> {}]
  ELSE LET v == ValidateToken(CHOOSE x \in header.token : TRUE, t)
       IN IF v.err # ErrNone
            THEN [status |-> 401, msg |-> MsgInvalidOrExpired, claims |-> {}]
            ELSE [status |-> 0, msg |-> MsgNext, claims |-> v.claims]

MsgRefreshHeaderFormat == "Invalid authorization header format"
MsgRefreshFailed == "Failed to refresh token"

\* What follows "Bearer " in a header, the empty string being a token that
\* does not parse.
BearerToken(header) ==
  IF header.token = {} THEN MalformedToken ELSE CHOOSE x \in header.token : TRUE

\* Handler.RefreshToken without its two tests of the header.
RefreshTokenHandler_NoHeaderCheck(header, dur, t, tExp, tIat, tNbf) ==
  LET r == RefreshToken(dur, BearerToken(header), t, tExp, tIat, tNbf)
  IN IF r.err # ErrNone
       THEN [status |-> 401, msg |-> MsgRefreshFailed, token |-> {}, called |-> TRUE,
             err |-> r.err]
       ELSE [status |-> 200, msg |-> "", token |-> r.token, called |-> TRUE,
             err |-> ErrNone]

\* Handler.RefreshToken (handler.go:243-272)
RefreshTokenHandler(header, dur, t, tExp, tIat, tNbf) ==
  IF header = NoHeader
    THEN [status |-> 401, msg |-> MsgHeaderRequired, token |-> {}, called |-> FALSE,
          err |-> ErrNone]
  ELSE IF header.scheme # "Bearer "
    THEN [status |-> 401, msg |-> MsgRefreshHeaderFormat, token |-> {}, called |-> FALSE,
          err |-> ErrNone]
  ELSE LET r == RefreshToken(dur, BearerToken(header), t, tExp, tIat, tNbf)
       IN IF r.err # ErrNone
            THEN [status |-> 401, msg |-> MsgRefreshFailed, token |-> {}, called |-> TRUE,
                  err |-> r.err]
            ELSE [status |-> 200, msg |-> "", token |-> r.token, called |-> TRUE,
                  err |-> ErrNone]

\* ------------------------------- the login flow with a token-holding client
InitGate ==
  /\ now = 0
  /\ tokenDuration = MaxDuration
  /\ oidcConfigured = TRUE
  /\ session = [s \in Sessions |-> EmptySession]
  /\ users = {}
  /\ nextId = 1
  /\ done = [s \in Sessions |-> NoRequest]
  /\ resp = NoResp
  /\ wallet = MalformedToken
  /\ jres = NoJres
  /\ proc = "running"
  /\ env = CompleteEnv
  /\ inflight = NoInflight

\* One user signing in: the provider refuses the code or vouches for s1.
GateProviders ==
  {[kind |-> "exchange error", profile |-> NoProfile],
   [kind |-> "ok", profile |-> Profile("s1", [nickname |-> "", name |-> "", email |-> "a@x"])]}

CallbackKeep(s) == CallbackStep(s, TRUE, GateProviders)

\* A request to a route behind middleware.JWTAuth (auth.go:13-63) carrying
\* the token the client holds.
JWTAuthRequest ==
  \E header \in Headers(wallet), t \in now..MaxTime :
    LET g == JWTAuth(header, t)
    IN /\ now' = t
       /\ resp' = [NoResp EXCEPT !.op = "JWTAuth", !.status = g.status, !.msg = g.msg,
                                 !.header = header, !.at = t,
                                 !.ctx = {ContextOf(c) : c \in g.claims},
                                 !.token = IF header.scheme = "Bearer "
                                             THEN header.token ELSE {},
                                 !.preAccount =
                                   IF header.token = {} THEN {}
                                   ELSE GetUserByOIDCSub(users, wallet.payload.oidc_sub)]
       /\ UNCHANGED <<bootVars, inflight, tokenDuration, oidcConfigured, session, users, nextId, done,
                      jwtVars>>

\* The clock readings of a RefreshToken call whose validator read t: the
\* clock is read again only when a token is minted.
RefreshReads(tok, t) ==
  IF ValidateToken(tok, t).err \in {ErrNone, ErrExpiredToken}
    THEN ClockReads(t)
    ELSE {[tExp |-> t, tIat |-> t, tNbf |-> t]}

\* What the bearer gate would make of an Authorization header at time t.
AuthKind(header, t) ==
  IF header = NoHeader THEN "missing"
  ELSE IF header.scheme # "Bearer " \/ header.token = {} THEN "malformed"
  ELSE IF JWTAuth(header, t).status = 0 THEN "valid"
  ELSE "invalid"

\* POST /auth/logout (route.go:19, handler.go:199-239): the route is outside
\* the bearer gate and the handler does not read the Authorization header.
LogoutRequest(s) ==
  /\ proc = "running"
  /\ \E header \in Headers(wallet) :
       LET r == Logout(oidcConfigured, env.endSessionURL)
       IN resp' = [NoResp EXCEPT !.op = "Logout", !.sid = s, !.status = r.status,
                                 !.msg = r.msg, !.logout_url = r.logout_url,
                                 !.auth = AuthKind(header, now),
                                 !.preState = session[s].state,
                                 !.preVerifier = session[s].code_verifier]
  /\ UNCHANGED <<now, tokenDuration, oidcConfigured, session, users, nextId, done,
                 jwtVars, bootVars, inflight>>

\* The clock readings of a refresh request arriving at t: the manager reads
\* the clock again only when it mints.
RefreshRequestReads(header, t) ==
  IF header # NoHeader /\ header.scheme = "Bearer "
    THEN RefreshReads(BearerToken(header), t)
    ELSE {[tExp |-> t, tIat |-> t, tNbf |-> t]}

\* POST /auth/refresh (route.go:20, handler.go:243-272) carrying the token
\* the client holds; the client keeps the token of a 200 response.
RefreshTokenRequest ==
  \E header \in Headers(wallet), t \in now..MaxTime :
  \E c \in RefreshRequestReads(header, t) :
  \E r \in {RefreshTokenHandler(header, tokenDuration, t, c.tExp, c.tIat, c.tNbf)} :
    /\ proc = "running"
    /\ now' = c.tNbf
    /\ wallet' = IF r.status = 200 THEN CHOOSE x \in r.token : TRUE ELSE wallet
    /\ resp' = [NoResp EXCEPT !.op = "RefreshToken", !.status = r.status, !.msg = r.msg,
                              !.header = header, !.at = t, !.token = r.token,
                              !.err = r.err, !.called = r.called,
                              !.token_type = IF r.status = 200 THEN "Bearer" ELSE "",
                              !.expires_in = IF r.status = 200 THEN {ExpiresIn} ELSE {},
                              !.preAccount =
                                IF wallet.wf
                                  THEN GetUserByOIDCSub(users, wallet.payload.oidc_sub)
                                  ELSE {}]
    /\ UNCHANGED <<bootVars, inflight, tokenDuration, oidcConfigured, session, users, nextId, done,
                   jres>>

NextGate ==
  \/ \E s \in Sessions : Login(s)
  \/ \E s \in Sessions : CallbackKeep(s)
  \/ \E id \in 1..Cardinality(Subjects) : ActivateUser(id)
  \/ \E id \in 1..Cardinality(Subjects) : DeactivateUser(id)
  \/ JWTAuthRequest
  \/ RefreshTokenRequest
  \/ \E s \in Sessions : LogoutRequest(s)

SpecGate == InitGate /\ [][NextGate]_vars


\* ------------------------------------------- the user service called directly
\* Service.ValidateOIDCLogin (part_009:52-67) for any subject, the database
\* answering each query or not.
ValidateOIDCLoginCall ==
  \E sub \in Subjects, db1 \in BOOLEAN, db2 \in BOOLEAN :
    LET v == ValidateOIDCLoginDB(users, sub, db1, db2)
    IN /\ resp' = [NoResp EXCEPT !.op = "ValidateOIDCLogin", !.sub = sub,
                                 !.err = v.err, !.user = v.user,
                                 !.args = {[db1 |-> db1, db2 |-> db2]},
                                 !.preAccount = GetUserByOIDCSub(users, sub)]
       /\ UNCHANGED <<now, bootVars, inflight, tokenDuration, oidcConfigured, session, users,
                      nextId, done, jwtVars>>

\* Service.GetOrCreateOIDCUser (part_009:69-90) with the username and email
\* Callback takes from a profile (handler.go:125-141).
GetOrCreateOIDCUserCall ==
  \E sub \in Subjects, shape \in ProfileShapes, dbSel \in BOOLEAN, dbIns \in BOOLEAN :
    LET profile == Profile(sub, shape)
        g == GetOrCreateOIDCUserDB(users, nextId, sub, UsernameFor(profile),
                                   profile.email, dbSel, dbIns)
    IN /\ users' = g.dir
       /\ nextId' = g.nid
       /\ resp' = [NoResp EXCEPT !.op = "GetOrCreateOIDCUser", !.sub = sub,
                                 !.err = g.err, !.user = g.user, !.isNew = g.isNew,
                                 !.args = {[username |-> UsernameFor(profile),
                                            email |-> profile.email,
                                            dbSel |-> dbSel, dbIns |-> dbIns]},
                                 !.preAccount = GetUserByOIDCSub(users, sub),
                                 !.created = g.dir \ users,
                                 !.wrote = (g.dir # users)]
       /\ UNCHANGED <<now, bootVars, inflight, tokenDuration, oidcConfigured, session, done,
                      jwtVars>>

NextDir ==
  \/ ValidateOIDCLoginCall
  \/ GetOrCreateOIDCUserCall
  \/ \E id \in 1..Cardinality(Subjects) : ActivateUser(id)
  \/ \E id \in 1..Cardinality(Subjects) : DeactivateUser(id)

SpecDir == InitGate /\ [][NextDir]_vars

\* ------------------------------------- Callback requests served concurrently
\* Two Callback requests are served by two goroutines, each advancing by one
\* access to the session store, the provider or the database at a time.
Procs == {"p1", "p2"}
RaceSessions == {"b1", "b2"}
RaceCodes == {"c1", "c2"}

\* The claims of the ID token the provider returns for every code it
\* redeems: both requests are for the same person.
RaceProfile == Profile("s1", [nickname |-> "", name |-> "", email |-> "a@x"])

\* The account of that person, as an earlier run may have left it.
RaceAccount ==
  [id |-> 1, oidc_sub |-> "s1", username |-> "s1", email |-> "a@x",
   is_active |-> TRUE, trust_points |-> 0]

\* Each browser has been through Login and holds the attempt it stored.
RaceAttempts ==
  [s \in RaceSessions |->
     IF s = "b1" THEN [state |-> "st1", code_verifier |-> "v1"]
     ELSE [state |-> "st2", code_verifier |-> "v2"]]

Idle ==
  [pc |-> "idle", sid |-> "", qstate |-> "", code |-> "", sess |-> EmptySession,
   lookup |-> "none", status |-> 0, msg |-> "", token |-> {}, user |-> {},
   isNew |-> FALSE]

\* A provider that redeems a code whenever it is presented.
ExchangeCode_Reusable(spent, code) == "ok"

\* Service.ExchangeCodeWithPKCE against a provider that redeems each
\* authorization code once.
ExchangeCode(spent, code) == IF code \in spent THEN "exchange error" ELSE "ok"

InitRace ==
  /\ now = 0
  /\ tokenDuration = MaxDuration
  /\ oidcConfigured = TRUE
  /\ session = RaceAttempts
  /\ users \in {{}, {RaceAccount}}
  /\ nextId = Cardinality(users) + 1
  /\ done = [s \in RaceSessions |-> NoRequest]
  /\ resp = NoResp
  /\ wallet = MalformedToken
  /\ jres = NoJres
  /\ proc = "running"
  /\ env = CompleteEnv
  /\ inflight = [req |-> [p \in Procs |-> Idle], spent |-> {}]

\* The request p ends with a response.
Respond(p, status, msg) ==
  [inflight EXCEPT !.req[p].pc = "done", !.req[p].status = status, !.req[p].msg = msg]

RaceUnchanged == <<tokenDuration, oidcConfigured, done, resp, jwtVars, bootVars>>

\* handler.go:66-85: the session is loaded and the state and verifier tested.
CbReceive(p) ==
  /\ inflight.req[p].pc = "idle"
  /\ \E s \in RaceSessions, qstate \in States, code \in RaceCodes :
       LET got == [inflight EXCEPT !.req[p].sid = s, !.req[p].qstate = qstate,
                                   !.req[p].code = code, !.req[p].sess = session[s]]
       IN inflight' =
            IF ~StateMatches(qstate, session[s].state)
              THEN [got EXCEPT !.req[p].pc = "done", !.req[p].status = 400,
                               !.req[p].msg = MsgInvalidState]
            ELSE IF ~VerifierPresent(session[s].code_verifier)
              THEN [got EXCEPT !.req[p].pc = "done", !.req[p].status = 400,
                               !.req[p].msg = MsgMissingVerifier]
            ELSE [got EXCEPT !.req[p].pc = "exchange"]
  /\ UNCHANGED <<now, session, users, nextId, RaceUnchanged>>

\* handler.go:87-112: the code is exchanged and the ID token read.
CbExchange(p) ==
  /\ inflight.req[p].pc = "exchange"
  /\ inflight' =
       IF ExchangeCode(inflight.spent, inflight.req[p].code) # "ok"
         THEN Respond(p, 401, MsgExchange)
         ELSE [inflight EXCEPT !.req[p].pc = "validate",
                               !.spent = @ \cup {inflight.req[p].code}]
  /\ UNCHANGED <<now, session, users, nextId, RaceUnchanged>>

\* handler.go:115-124: ValidateOIDCLogin
CbValidate(p) ==
  /\ inflight.req[p].pc = "validate"
  /\ LET v == ValidateOIDCLogin(users, RaceProfile.sub)
         seen == [inflight EXCEPT !.req[p].lookup = v.err, !.req[p].user = v.user]
     IN inflight' =
          IF v.err = ErrUserNotActive
            THEN [seen EXCEPT !.req[p].pc = "done", !.req[p].status = 403,
                              !.req[p].msg = MsgPending]
          ELSE IF v.err = ErrUserNotAllowed THEN [seen EXCEPT !.req[p].pc = "select"]
          ELSE [seen EXCEPT !.req[p].pc = "mint"]
  /\ UNCHANGED <<now, session, users, nextId, RaceUnchanged>>

\* part_009:71-76: the SELECT of GetOrCreateOIDCUser
CbSelect(p) ==
  /\ inflight.req[p].pc = "select"
  /\ inflight' =
       IF GetUserByOIDCSub(users, RaceProfile.sub) # {}
         THEN Respond(p, 403, MsgNotActive)
         ELSE [inflight EXCEPT !.req[p].pc = "insert"]
  /\ UNCHANGED <<now, session, users, nextId, RaceUnchanged>>

\* part_009:78-89 and handler.go:137-147: the INSERT of GetOrCreateOIDCUser
CbInsert(p) ==
  /\ inflight.req[p].pc = "insert"
  /\ \E c \in {CreateUserFromOIDC(users, nextId, RaceProfile.sub, UsernameFor(RaceProfile),
                                   RaceProfile.email)} :
       IF c.err # ErrNone
         THEN /\ inflight' = Respond(p, 500, MsgRegisterFailed)
              /\ UNCHANGED <<users, nextId>>
         ELSE /\ inflight' = [Respond(p, 403, MsgRegistered) EXCEPT !.req[p].isNew = TRUE]
              /\ users' = users \cup c.row
              /\ nextId' = nextId + 1
  /\ UNCHANGED <<now, session, RaceUnchanged>>

\* handler.go:159-195: the token is minted, the request's copy of the
\* session is saved without state and verifier, and the token returned.
CbMint(p) ==
  /\ inflight.req[p].pc = "mint"
  /\ \E saveOk \in BOOLEAN, c \in ClockReads(now) :
       LET u == CHOOSE x \in inflight.req[p].user : TRUE
           jwt == GenerateToken(tokenDuration, u.id, EmailString(u.email), u.oidc_sub,
                                u.username, u.is_active, c.tExp, c.tIat, c.tNbf)
       IN /\ now' = c.tNbf
          /\ IF saveOk
               THEN /\ session' = [session EXCEPT ![inflight.req[p].sid] =
                                     ClearSession(inflight.req[p].sess, TRUE)]
                    /\ inflight' = [Respond(p, 200, "") EXCEPT !.req[p].token = {jwt}]
               ELSE /\ session' = session
                    /\ inflight' = Respond(p, 500, MsgClearSession)
  /\ UNCHANGED <<users, nextId, RaceUnchanged>>

NextRace ==
  \/ \E p \in Procs : CbReceive(p)
  \/ \E p \in Procs : CbExchange(p)
  \/ \E p \in Procs : CbValidate(p)
  \/ \E p \in Procs : CbSelect(p)
  \/ \E p \in Procs : CbInsert(p)
  \/ \E p \in Procs : CbMint(p)

SpecRace == InitRace /\ [][NextRace]_vars

\* -------------------------------------------- the server from its startup
\* What the Redis session store may hold for a browser when the process
\* starts: nothing, or the keys a Login of an earlier run stored.
LeftoverSessions == {EmptySession, [state |-> "st1", code_verifier |-> "v1"]}

InitBoot ==
  /\ now = 0
  /\ tokenDuration = MaxDuration
  /\ oidcConfigured = FALSE
  /\ session \in [Sessions -> LeftoverSessions]
  /\ users = {}
  /\ nextId = 1
  /\ done = [s \in Sessions |-> NoRequest]
  /\ resp = NoResp
  /\ wallet = MalformedToken
  /\ jres = NoJres
  /\ proc = "starting"
  /\ env \in Envs
  /\ inflight = NoInflight

\* app.Bootstrap (part_003:45-58): the OIDC service is built only when an
\* issuer is configured, and a failure to build it is returned to main,
\* which exits.
Bootstrap ==
  /\ proc = "starting"
  /\ IF env.issuer # ""
       THEN IF NewService(env) # ErrNone
              THEN proc' = "exited" /\ oidcConfigured' = FALSE
              ELSE proc' = "running" /\ oidcConfigured' = TRUE
       ELSE proc' = "running" /\ oidcConfigured' = FALSE
  /\ UNCHANGED <<now, tokenDuration, session, users, nextId, done, resp, jwtVars, env,
                 inflight>>

NextBoot ==
  \/ Bootstrap
  \/ \E s \in Sessions : Login(s)
  \/ \E s \in Sessions : CallbackKeep(s)
  \/ \E id \in 1..Cardinality(Subjects) : ActivateUser(id)
  \/ \E s \in Sessions : LogoutRequest(s)

SpecBoot == InitBoot /\ [][NextBoot]_vars

\* ------------------------------------------ the JWT manager called directly
InitJWT ==
  /\ now = 0
  /\ tokenDuration \in Durations
  /\ oidcConfigured = TRUE
  /\ session = [s \in Sessions |-> EmptySession]
  /\ users = {}
  /\ nextId = 1
  /\ done = [s \in Sessions |-> NoRequest]
  /\ resp = NoResp
  /\ wallet \in TokenInputs
  /\ jres = NoJres
  /\ proc = "running"
  /\ env = CompleteEnv
  /\ inflight = NoInflight

\* JWTManager.GenerateToken (jwt.go:43-59)
GenerateTokenCall ==
  \E i \in MintArgs, isActive \in BOOLEAN, c \in ClockReads(now) :
    LET tok == GenerateToken(tokenDuration, i.user_id, i.email, i.oidc_sub, i.username,
                             isActive, c.tExp, c.tIat, c.tNbf)
    IN /\ wallet' = tok
       /\ now' = c.tNbf
       /\ jres' = [NoJres EXCEPT !.op = "GenerateToken", !.at = c.tExp,
                                 !.mintAt = c.tExp, !.out = {tok},
                                 !.args = {[user_id |-> i.user_id, email |-> i.email,
                                            oidc_sub |-> i.oidc_sub,
                                            username |-> i.username,
                                            is_active |-> isActive]}]
       /\ UNCHANGED <<bootVars, inflight, tokenDuration, flowVars>>

\* JWTManager.ValidateToken (jwt.go:62-93) on the token the client holds
ValidateTokenCall ==
  \E t \in now..MaxTime :
    LET v == ValidateToken(wallet, t)
    IN /\ now' = t
       /\ jres' = [NoJres EXCEPT !.op = "ValidateToken", !.tok = wallet, !.at = t,
                                 !.err = v.err, !.claims = v.claims,
                                 !.args = jres.args]
       /\ UNCHANGED <<bootVars, inflight, tokenDuration, flowVars, wallet>>

\* JWTManager.RefreshToken (jwt.go:96-121); the client keeps the new token
RefreshTokenCall ==
  \E t \in now..MaxTime :
  \E c \in RefreshReads(wallet, t) :
    LET r == RefreshToken(tokenDuration, wallet, t, c.tExp, c.tIat, c.tNbf)
    IN /\ now' = c.tNbf
       /\ wallet' = IF r.token = {} THEN wallet ELSE CHOOSE x \in r.token : TRUE
       /\ jres' = [NoJres EXCEPT !.op = "RefreshToken", !.tok = wallet, !.at = t,
                                 !.mintAt = c.tExp, !.err = r.err, !.out = r.token,
                                 !.args = IF r.token = {} THEN jres.args ELSE {}]
       /\ UNCHANGED <<bootVars, inflight, tokenDuration, flowVars>>

NextJWT ==
  \/ GenerateTokenCall
  \/ ValidateTokenCall
  \/ RefreshTokenCall

SpecJWT == InitJWT /\ [][NextJWT]_vars

\* ------------------------------- the token endpoints, any token presented
\* A client holding any token, well made or not, calls the routes that take
\* a bearer token.
NextAPI ==
  \/ JWTAuthRequest
  \/ RefreshTokenRequest

SpecAPI == InitJWT /\ [][NextAPI]_vars

\* ------------------------------------------------------- properties, Spec
\* C1: a Callback whose state query parameter differs from the state stored
\* in the caller's session (a session storing no state included, whatever
\* the code and the stored verifier) is answered 400 and no token is minted
\* or returned.
C1_StateMismatchRejected ==
  (resp.op = "Callback" /\ oidcConfigured /\ resp.qstate # resp.preState)
    => (resp.status = 400 /\ resp.token = {} /\ resp.minted = {})

\* A Callback carrying one state value while the session stores another.
C1_Witness ==
  /\ resp.op = "Callback" /\ oidcConfigured
  /\ resp.preState \in States /\ resp.qstate \in States
  /\ resp.qstate # resp.preState
  /\ resp.status = 400

\* C2: once a Callback has been answered 200, a Callback with the same code
\* and state in the same session, no Login in between, is answered 400 and
\* gets no token.
C2_ReplayRejected ==
  (resp.op = "Callback" /\ resp.replay)
    => (resp.status = 400 /\ resp.token = {} /\ resp.minted = {})

\* The replayed Callback has happened: it repeats the state answered 200.
C2_Witness ==
  /\ resp.op = "Callback" /\ resp.replay
  /\ resp.qstate \in States
  /\ done[resp.sid].state = resp.qstate
  /\ resp.status = 400

\* C3: after every Callback that passed the state check and the verifier
\* check, whatever its outcome, the session stores neither the state nor the
\* code_verifier.
C3_AttemptConsumed ==
  (resp.op = "Callback" /\ resp.passed) => session[resp.sid] = EmptySession

\* C4: a token is returned only if an active account for the verified
\* subject existed at the lookup; when no account or only an inactive one
\* existed, the Callback is answered 403 and no token is minted.
C4_TokenOnlyForActive ==
  (resp.op = "Callback" /\ oidcConfigured) =>
    /\ resp.token # {} => \E u \in resp.preAccount : u.is_active
    /\ (resp.sub # Nil /\ ~(\E u \in resp.preAccount : u.is_active))
         => (resp.status = 403 /\ resp.token = {} /\ resp.minted = {})

\* C5: for a verified subject without an account the Callback creates
\* exactly one account, inactive, for that subject and answers 403 "newly
\* registered"; for a subject whose account is inactive it answers 403
\* "pending approval" and creates nothing; neither mints a token.
C5_RegisterThenPending ==
  (resp.op = "Callback" /\ resp.sub # Nil) =>
    /\ resp.preAccount = {} =>
         /\ resp.status = 403 /\ resp.msg = MsgRegistered
         /\ Cardinality(resp.created) = 1
         /\ \A u \in resp.created : u.oidc_sub = resp.sub /\ ~u.is_active
         /\ resp.token = {} /\ resp.minted = {}
    /\ (resp.preAccount # {} /\ \A u \in resp.preAccount : ~u.is_active) =>
         /\ resp.status = 403 /\ resp.msg = MsgPending
         /\ resp.created = {}
         /\ resp.token = {} /\ resp.minted = {}

\* ---------------------------------------------------- properties, SpecJWT
\* C6: ValidateToken rejects every well-formed token whose is_active claim
\* is false, valid signature and unexpired included; it returns claims only
\* for a token signed under the server secret, not expired, and active, and
\* then the claims are the token's own.
C6_ValidateRequiresActive ==
  jres.op = "ValidateToken" =>
    /\ (jres.tok.wf /\ ~jres.tok.payload.is_active)
         => (jres.err # ErrNone /\ jres.claims = {})
    /\ (jres.err = ErrNone \/ jres.claims # {}) =>
         /\ jres.err = ErrNone
         /\ jres.tok.wf
         /\ jres.tok.alg \in SigningMethodHMAC
         /\ jres.tok.sig = Sign(SecretKey, jres.tok.alg, jres.tok.payload)
         /\ jres.at < jres.tok.payload.exp
         /\ jres.tok.payload.is_active
         /\ jres.claims = {jres.tok.payload}

\* An unexpired token signed under the server secret with is_active false
\* has been rejected for that reason.
C6_Witness ==
  /\ jres.op = "ValidateToken"
  /\ jres.tok.wf
  /\ jres.tok.sig = Sign(SecretKey, "HS256", jres.tok.payload)
  /\ jres.at < jres.tok.payload.exp /\ jres.at >= jres.tok.payload.nbf
  /\ ~jres.tok.payload.is_active
  /\ jres.err = ErrNotActive

\* C7: RefreshToken fails, and mints nothing, on every well-formed token
\* whose is_active claim is false, expired or not.
C7_RefreshRejectsInactive ==
  (jres.op = "RefreshToken" /\ jres.tok.wf /\ ~jres.tok.payload.is_active)
    => (jres.err # ErrNone /\ jres.out = {})

\* C8: RefreshToken on a token that is expired and otherwise valid (signed
\* under the server secret, already valid, active) succeeds; the new token
\* keeps user_id, email, oidc_sub, username and is_active, and expires at
\* the refresh's clock reading plus the token duration, strictly later than
\* the old token.
C8_RefreshExpired ==
  (/\ jres.op = "RefreshToken"
   /\ jres.tok.wf
   /\ jres.tok.alg \in SigningMethodHMAC
   /\ jres.tok.sig = Sign(SecretKey, jres.tok.alg, jres.tok.payload)
   /\ jres.tok.payload.is_active
   /\ jres.at >= jres.tok.payload.nbf
   /\ jres.at >= jres.tok.payload.exp)
    => /\ jres.err = ErrNone
       /\ \E n \in jres.out :
            /\ jres.out = {n}
            /\ n.payload.user_id = jres.tok.payload.user_id
            /\ n.payload.email = jres.tok.payload.email
            /\ n.payload.oidc_sub = jres.tok.payload.oidc_sub
            /\ n.payload.username = jres.tok.payload.username
            /\ n.payload.is_active = jres.tok.payload.is_active
            /\ n.payload.exp = jres.mintAt + tokenDuration
            /\ n.payload.exp > jres.tok.payload.exp

\* An expired, otherwise valid token has been refreshed.
C8_Witness ==
  /\ jres.op = "RefreshToken"
  /\ jres.tok.wf
  /\ jres.tok.sig = Sign(SecretKey, "HS256", jres.tok.payload)
  /\ jres.tok.payload.is_active
  /\ jres.at >= jres.tok.payload.nbf
  /\ jres.at >= jres.tok.payload.exp
  /\ jres.err = ErrNone /\ jres.out # {}

C10_RefreshedTokenDiffers ==
  (jres.op = "RefreshToken" /\ jres.err = ErrNone) => jres.tok \notin jres.out

\* C11: ValidateToken rejects every well-formed token whose header names an
\* algorithm other than HS256, the one GenerateToken signs with, also when
\* the token is signed under the server secret, unexpired and active.
C11_OnlyHS256Accepted ==
  (jres.op = "ValidateToken" /\ jres.tok.wf /\ jres.tok.alg # "HS256")
    => (jres.err # ErrNone /\ jres.claims = {})

\* C12, as the code has it: a token minted by GenerateToken and validated
\* within its validity window is accepted when isActive was true, and the
\* claims returned carry the user_id and is_active passed in and the email,
\* oidc_sub and username as encoding/json writes them (unchanged when they
\* are valid UTF-8); when isActive was false it is rejected as not active.
C12_RoundTrip ==
  (/\ jres.op = "ValidateToken"
   /\ jres.args # {}
   /\ jres.tok.payload.nbf <= jres.at
   /\ jres.at < jres.tok.payload.exp)
    => \A a \in jres.args :
         IF a.is_active
           THEN /\ jres.err = ErrNone
                /\ \E c \in jres.claims :
                     /\ jres.claims = {c}
                     /\ c.user_id = a.user_id
                     /\ c.email = Marshal(a.email)
                     /\ c.oidc_sub = Marshal(a.oidc_sub)
                     /\ c.username = Marshal(a.username)
                     /\ c.is_active
           ELSE jres.err = ErrNotActive /\ jres.claims = {}

\* A token minted for an active user with valid UTF-8 strings has been
\* validated inside its window and its claims returned unchanged.
C12_Witness ==
  /\ jres.op = "ValidateToken"
  /\ jres.tok.payload.nbf <= jres.at /\ jres.at < jres.tok.payload.exp
  /\ \E a \in jres.args :
       /\ a.is_active
       /\ a.username = Marshal(a.username) /\ a.email # ""
       /\ \E c \in jres.claims : c.email = a.email /\ c.username = a.username
  /\ jres.err = ErrNone

\* C12 as stated: the round trip succeeds and returns exactly the values
\* passed to GenerateToken, for every combination of them.
C12_RoundTripEveryInput ==
  (/\ jres.op = "ValidateToken"
   /\ jres.args # {}
   /\ jres.tok.payload.nbf <= jres.at
   /\ jres.at < jres.tok.payload.exp)
    => /\ jres.err = ErrNone
       /\ \A a \in jres.args : \E c \in jres.claims :
            /\ c.user_id = a.user_id /\ c.email = a.email
            /\ c.oidc_sub = a.oidc_sub /\ c.username = a.username
            /\ c.is_active = a.is_active

\* C13: a token GenerateToken mints carries iat = nbf = the mint time and
\* exp = iat + tokenDuration; minted for an active user it is accepted at
\* iat + tokenDuration - 1 and rejected as expired at iat + tokenDuration + 1.
C13_ExpiryWindow ==
  /\ jres.op = "GenerateToken" =>
       \A n \in jres.out :
         /\ n.payload.iat = jres.mintAt
         /\ n.payload.nbf = jres.mintAt
         /\ n.payload.exp = n.payload.iat + tokenDuration
  /\ (jres.op = "ValidateToken" /\ \E a \in jres.args : a.is_active) =>
       /\ jres.at = jres.tok.payload.iat + tokenDuration - 1 => jres.err = ErrNone
       /\ jres.at = jres.tok.payload.iat + tokenDuration + 1 => jres.err = ErrExpiredToken

C15_MissingSubRejected ==
  (resp.op = "Callback" /\ resp.idsub \in {Nil, ""})
    => /\ resp.status = 500
       /\ resp.msg = MsgMissingSub
       /\ resp.lookup = "none"
       /\ resp.created = {}
       /\ resp.minted = {}
       /\ resp.token = {}

C15_Witness ==
  /\ resp.op = "Callback"
  /\ resp.idsub = ""
  /\ resp.status = 500
  /\ users # {}

\* The stored sessions a Callback can be handed: each key absent or holding
\* a string.
StoredSessions == [state : States \cup {Nil}, code_verifier : Verifiers \cup {Nil, ""}]

\* C16: a Callback whose state parameter differs from the stored state, or
\* whose session holds no non-empty verifier, answers 400 and does nothing
\* else: no exchange, no directory read or write, no token, and the stored
\* state and verifier stay as they were.  The first conjunct is about the
\* request just served, the second about every stored session the handler
\* could be handed in the current directory.
C16_RejectedCallbackNoEffects ==
  /\ (/\ resp.op = "Callback"
      /\ resp.status # 503
      /\ \/ resp.qstate # resp.preState
         \/ resp.preVerifier \in {Nil, ""})
       => /\ resp.status = 400
          /\ resp.msg \in {MsgInvalidState, MsgMissingVerifier}
          /\ resp.exchanged = {}
          /\ resp.lookup = "none"
          /\ resp.created = {}
          /\ resp.minted = {}
          /\ resp.token = {}
          /\ session[resp.sid] = [state |-> resp.preState,
                                  code_verifier |-> resp.preVerifier]
  /\ \A sess \in StoredSessions, qstate \in QueryStates, code \in Codes,
        prov \in ProviderResults, saveOk \in BOOLEAN :
       (qstate # sess.state \/ sess.code_verifier \in {Nil, ""})
         => LET r == Callback(sess, users, nextId, tokenDuration, qstate, code, prov,
                              saveOk, now, now, now)
            IN /\ r.status = 400
               /\ r.msg = IF qstate # sess.state
                            THEN MsgInvalidState ELSE MsgMissingVerifier
               /\ r.exchanged = {}
               /\ r.lookup = "none"
               /\ r.dir = users
               /\ r.nid = nextId
               /\ r.minted = {}
               /\ r.token = {}
               /\ r.session = sess

C16_Witness ==
  /\ resp.op = "Callback"
  /\ resp.status = 400
  /\ resp.preState \in States
  /\ resp.qstate \in States
  /\ resp.qstate # resp.preState
  /\ session[resp.sid].code_verifier \in Verifiers
  /\ users # {}

\* C17: a Login answered with the redirect has stored exactly the state and
\* verifier it generated, and the redirect carries that state with
\* code_challenge = base64url(SHA-256(stored verifier)) and method S256; a
\* Login whose session save fails answers 500 without a redirect; and what
\* a Callback sends to the token exchange is the verifier it read from the
\* session.
C17_LoginStoresWhatItSends ==
  /\ (resp.op = "Login" /\ resp.status = 307)
       => /\ resp.generated # {}
          /\ \A g \in resp.generated :
               /\ session[resp.sid] = [state |-> g.state, code_verifier |-> g.verifier]
               /\ resp.redirect =
                    {[state |-> g.state,
                      code_challenge |-> S256(session[resp.sid].code_verifier),
                      code_challenge_method |-> "S256"]}
  /\ (resp.op = "Login" /\ resp.status # 307) => resp.redirect = {}
  /\ (resp.op = "Login" /\ resp.msg = MsgSaveSession)
       => resp.status = 500 /\ resp.redirect = {}
  /\ resp.op = "Callback"
       => /\ resp.passed => resp.exchanged # {}
          /\ \A e \in resp.exchanged : e[2] = resp.preVerifier

C17_Witness ==
  /\ resp.op = "Login"
  /\ resp.status = 307
  /\ resp.preState \in States
  /\ session[resp.sid].state # resp.preState

\* --------------------------------------------------- properties, SpecBoot
\* C18: Logout answers 200 to every request, whatever the Authorization
\* header and whatever the OIDC configuration the process runs with.
C18_LogoutAlways200 ==
  resp.op = "Logout" => (resp.status = 200 /\ resp.msg = MsgLoggedOut)

\* C19: when the OIDC service cannot be built at startup (issuer, client id,
\* client secret or redirect URL empty, or discovery failing) the process
\* still comes up, without an OIDC service, and answers Login and Callback
\* with 503.
C19_StartupSurvivesBadConfig ==
  (/\ proc # "starting"
   /\ \/ env.issuer = ""
      \/ env.clientID = ""
      \/ env.clientSecret = ""
      \/ env.redirectURL = ""
      \/ env.discovery = "error")
    => /\ proc = "running"
       /\ ~oidcConfigured
       /\ resp.op \in {"Login", "Callback"} => resp.status = 503

\* C20: a running server whose handler holds no OIDC service answers Login
\* and Callback with 503 having generated nothing, asked the provider and
\* the directory nothing, minted nothing and left the session as it found
\* it, and answers Logout with 200 and no logout_url.
C20_NoClientRefuses ==
  (proc = "running" /\ ~oidcConfigured)
    => /\ resp.op \in {"Login", "Callback"}
            => /\ resp.status = 503
               /\ resp.msg = MsgNotConfigured
               /\ resp.generated = {}
               /\ resp.redirect = {}
               /\ resp.exchanged = {}
               /\ resp.lookup = "none"
               /\ resp.created = {}
               /\ resp.minted = {}
               /\ resp.token = {}
               /\ session[resp.sid] = [state |-> resp.preState,
                                       code_verifier |-> resp.preVerifier]
       /\ resp.op = "Logout"
            => /\ resp.status = 200
               /\ resp.msg = MsgLoggedOut
               /\ resp.logout_url = {}
       /\ users = {}
       /\ nextId = 1

\* A Callback refused with 503 although the session still holds the state
\* and verifier of an earlier run and the query carries that state.
C20_Witness ==
  /\ proc = "running"
  /\ ~oidcConfigured
  /\ resp.op = "Callback"
  /\ resp.status = 503
  /\ resp.preState \in States
  /\ resp.qstate = resp.preState
  /\ env.endSessionURL = GoodEndSessionURL

\* ---------------------------------------------------- properties, SpecAPI
\* C21: the handler behind the bearer gate runs exactly when the request
\* carries "Bearer " followed by a non-empty token that ValidateToken
\* accepts at that moment, and then the context holds the token's user_id,
\* email, username, oidc_sub and is_active; every other request is aborted
\* with 401 and nothing is put in the context.
C21_GateAdmitsOnlyValidBearer ==
  resp.op = "JWTAuth"
    => IF /\ resp.header.scheme = "Bearer "
          /\ resp.header.token # {}
          /\ \A tok \in resp.header.token : ValidateToken(tok, resp.at).err = ErrNone
         THEN /\ resp.msg = MsgNext
              /\ resp.status = 0
              /\ resp.ctx = {ContextOf(tok.payload) : tok \in resp.header.token}
         ELSE /\ resp.status = 401
              /\ resp.msg # MsgNext
              /\ resp.ctx = {}

C21_Witness ==
  /\ resp.op = "JWTAuth"
  /\ resp.msg = MsgNext
  /\ \E c \in resp.ctx : c.oidc_sub = "s2" /\ c.is_active
  /\ resp.at > 0

\* ---------------------------------------------------- properties, SpecDir
\* C22: ValidateOIDCLogin returns the account exactly when the directory
\* holds an active account of the subject, the not-active error exactly when
\* it holds an inactive one, and the not-allowed error exactly when it holds
\* none.
C22_ResolveClassifiesByContent ==
  resp.op = "ValidateOIDCLogin"
    => /\ (resp.err = ErrNone) <=> (\E u \in resp.preAccount : u.is_active)
       /\ resp.err = ErrNone => resp.user = resp.preAccount
       /\ (resp.err = ErrUserNotActive)
            <=> (resp.preAccount # {} /\ \A u \in resp.preAccount : ~u.is_active)
       /\ (resp.err = ErrUserNotAllowed) <=> (resp.preAccount = {})

\* C23: GetOrCreateOIDCUser called (the database answering) for a subject
\* without an account creates one inactive account of that subject under
\* the username supplied and returns it as newly created, whatever accounts
\* of other subjects the directory holds.
C23_ProvisionAlwaysCreates ==
  (/\ resp.op = "GetOrCreateOIDCUser"
   /\ resp.preAccount = {}
   /\ \A a \in resp.args : a.dbSel /\ a.dbIns)
    => /\ resp.err = ErrNone
       /\ resp.isNew
       /\ resp.user = resp.created
       /\ Cardinality(resp.created) = 1
       /\ \A u \in resp.created, a \in resp.args :
            /\ u.oidc_sub = resp.sub
            /\ u.username = a.username
            /\ ~u.is_active

\* --------------------------------------- properties, SpecGate (continued)
\* The operations of the auth core, as the response names them.
CoreOps == {"Login", "Callback", "Logout", "RefreshToken", "JWTAuth"}

\* C24: a step of the auth core leaves every existing account as it is and
\* adds at most accounts that are inactive, have no trust points and belong
\* to a subject that had none; an account turns active only in an
\* ActivateUser step; and a Callback returns a token only for a subject
\* whose account is active when it is called.
C24_CoreOnlyCreatesInactive ==
  [][/\ resp'.op \in CoreOps
          => /\ users \subseteq users'
             /\ \A u \in users' \ users :
                  /\ ~u.is_active
                  /\ u.trust_points = 0
                  /\ GetUserByOIDCSub(users, u.oidc_sub) = {}
     /\ \A u \in users' :
          (u.is_active /\ u \notin users) => resp'.op = "ActivateUser"
     /\ (resp'.op = "Callback" /\ resp'.token # {})
          => \E u \in users : u.oidc_sub = resp'.sub /\ u.is_active
    ]_vars

\* A Callback has just created the account of a subject that had none.
C24_Witness ==
  /\ resp.op = "Callback"
  /\ resp.created # {}
  /\ resp.created \subseteq users
  /\ resp.token = {}

C26_RefreshEndpoint ==
  resp.op = "RefreshToken"
    => IF resp.header.scheme # "Bearer "
         THEN /\ resp.status \in 400..499
              /\ ~resp.called
              /\ resp.token = {}
              /\ resp.token_type = ""
         ELSE /\ resp.called
              /\ IF RefreshToken(tokenDuration, BearerToken(resp.header), resp.at,
                                 resp.at, resp.at, resp.at).err # ErrNone
                   THEN /\ resp.status = 401
                        /\ resp.token = {}
                        /\ resp.token_type = ""
                   ELSE /\ resp.status = 200
                        /\ resp.token_type = "Bearer"
                        /\ \E c \in ClockReads(resp.at) :
                             resp.token =
                               RefreshToken(tokenDuration, BearerToken(resp.header),
                                            resp.at, c.tExp, c.tIat, c.tNbf).token
                        /\ resp.token # {}

\* A refresh refused because the presented token's payload was edited.
C26_Witness ==
  /\ resp.op = "RefreshToken"
  /\ resp.header.scheme = "Bearer "
  /\ \E tok \in resp.header.token :
       tok.wf /\ tok.alg = "HS256" /\ tok.sig = Sign(SecretKey, "HS256", Tampered(tok.payload))
  /\ resp.status = 401

\* --------------------------------------- properties, SpecGate (continued)
\* C27: the refresh endpoint, asked with the token of an account that is
\* deactivated in the directory, returns no token expiring later than the
\* token presented.
C27_NoLaterExpiryAfterDeactivation ==
  (/\ resp.op = "RefreshToken"
   /\ \E u \in resp.preAccount : ~u.is_active)
    => \A new \in resp.token, old \in resp.header.token :
         new.payload.exp <= old.payload.exp

\* C30: the expires_in of a 200 response of Callback and of the refresh
\* endpoint is the configured token duration in seconds.
C30_ExpiresInIsDuration ==
  (resp.op \in {"Callback", "RefreshToken"} /\ resp.status = 200)
    => resp.expires_in = {tokenDuration}

\* --------------------------------------------------- properties, SpecRace
\* C28: every Callback that found no account for its subject ends with 403
\* and without a token, and the directory never holds more than one account
\* of the subject, however the two requests interleave.
C28_ConcurrentRegistration ==
  /\ \A p \in Procs :
       (inflight.req[p].pc = "done" /\ inflight.req[p].lookup = ErrUserNotAllowed)
         => (inflight.req[p].status = 403 /\ inflight.req[p].token = {})
  /\ Cardinality(GetUserByOIDCSub(users, RaceProfile.sub)) <= 1

====
